---- MODULE Spec2Model ----
(***************************************************************************)
(* Browse-file dialog of pipeline-components-manager (BrowseFileDialog.tsx) *)
(* as a state machine: the breadcrumbs widget, the event routing layered   *)
(* on the directory listing, getValue, and showBrowseFileDialog.           *)
(*                                                                         *)
(* JavaScript strings are sequences of one-character strings, so that      *)
(* indexOf, replace, split, trim and endsWith are computed, not assumed.   *)
(* A className is a sequence of tokens: a class name or the blank " ".     *)
(***************************************************************************)
EXTENDS Integers, Sequences, FiniteSets, TLC

VARIABLES
  opts,          \* the options object handed to showBrowseFileDialog
  isMac,         \* platform of the host (IS_MAC of the directory listing)
  pc,            \* "idle", "open", "resolved", "done": the dialog's life
  bodyClass,     \* document.body.className
  path,          \* model.path, the directory the dialog's model is in
  selection,     \* directoryListing.selection: the paths selected
  crumbShown,    \* the breadcrumb spans in the document
  crumbTitle,    \* their title attributes
  crumbClass,    \* their classNames
  updatePending, \* an update request is posted to the breadcrumbs
  rendered,      \* onUpdateRequest has run at least once
  log,           \* what handleEvent did, when the last step was handleEvent
  result,        \* what dialog.launch() resolved with
  returned,      \* what showBrowseFileDialog resolved with
  dpc            \* several calls: each call's position (phase) and the
                 \* host's queue of launched dialogs (queue)

vars == <<opts, isMac, pc, bodyClass, path, selection, crumbShown, crumbTitle, crumbClass, updatePending, rendered,
          log, result, returned, dpc>>

dialogVars == <<opts, isMac, pc, path, selection, crumbShown, crumbTitle, crumbClass, updatePending, rendered,
                log, result, returned>>

\* How many calls of showBrowseFileDialog may overlap.
MaxDialogs == 3

BROWSE_FILE_CLASS == "amphi-browseFileDialog"
BROWSE_FILE_OPEN_CLASS == "amphi-browseFileDialog-open"
DISABLED_CLASS == "amphi-BreadCrumbs-disabled"

NONE == "none"   \* undefined / an absent option

----------------------------------------------------------------------------
(* JavaScript string operations                                            *)

Range(s) == {s[i] : i \in 1..Len(s)}

\* s.indexOf(p) === 0
StartsWith(s, p) == Len(p) <= Len(s) /\ SubSeq(s, 1, Len(p)) = p

\* s.endsWith(p)
EndsWith(s, p) ==
  Len(p) <= Len(s) /\ SubSeq(s, Len(s) - Len(p) + 1, Len(s)) = p

\* s.indexOf(p), 1-based; 0 when p does not occur (JavaScript's -1)
IndexOf(s, p) ==
  LET hits == {i \in 1..(Len(s) - Len(p) + 1) : SubSeq(s, i, i + Len(p) - 1) = p}
  IN IF hits = {} THEN 0 ELSE CHOOSE i \in hits : \A j \in hits : i <= j

\* s.replace(p, r) with a string pattern: the first occurrence only
Replace(s, p, r) ==
  LET i == IndexOf(s, p)
  IN IF i = 0 THEN s
     ELSE SubSeq(s, 1, i - 1) \o r \o SubSeq(s, i + Len(p), Len(s))

RECURSIVE TrimLeft(_)
TrimLeft(s) == IF s # <<>> /\ Head(s) = " " THEN TrimLeft(Tail(s)) ELSE s

RECURSIVE TrimRight(_)
TrimRight(s) ==
  IF s # <<>> /\ s[Len(s)] = " " THEN TrimRight(SubSeq(s, 1, Len(s) - 1)) ELSE s

\* s.trim()
Trim(s) == TrimRight(TrimLeft(s))

\* s.split(sep) for a one-character separator: never empty
RECURSIVE Split(_, _)
Split(s, sep) ==
  LET i == IndexOf(s, <<sep>>)
  IN IF i = 0 THEN <<s>>
     ELSE <<SubSeq(s, 1, i - 1)>> \o Split(SubSeq(s, i + 1, Len(s)), sep)

\* parts.join(sep)
RECURSIVE JoinWith(_, _)
JoinWith(parts, sep) ==
  IF parts = <<>> THEN <<>>
  ELSE IF Len(parts) = 1 THEN parts[1]
  ELSE parts[1] \o <<sep>> \o JoinWith(Tail(parts), sep)

LowerChar(c) ==
  CASE c = "C" -> "c"
    [] c = "T" -> "t"
    [] c = "X" -> "x"
    [] OTHER -> c

\* s.toLowerCase()
ToLowerCase(s) == [i \in 1..Len(s) |-> LowerChar(s[i])]

\* className.indexOf(cls) !== -1, a className being a sequence of tokens
HasToken(cls, tok) == tok \in Range(cls)

----------------------------------------------------------------------------
(* The virtual filesystem served by the host's contents manager            *)

Entry(dir, name, type) ==
  [dir |-> dir, name |-> name, type |-> type,
   path |-> IF dir = <<>> THEN name ELSE dir \o <<"/">> \o name]

\* Every entry, directories first and by name within a directory: the order
\* the directory listing keeps its sorted items in.
AllEntries ==
  << Entry(<<>>, <<"a">>, "directory"),
     Entry(<<>>, <<"a", "b">>, "directory"),
     Entry(<<>>, <<"b">>, "directory"),
     Entry(<<"a">>, <<"d">>, "directory"),
     Entry(<<"a">>, <<"x", ".", "C">>, "file"),
     Entry(<<"a">>, <<"y", ".", "t">>, "file"),
     Entry(<<"a", "/", "d">>, <<"e">>, "directory"),
     Entry(<<"a", "/", "d">>, <<"c">>, "file"),
     Entry(<<"a", "/", "d">>, <<"z", ".", "c">>, "file"),
     Entry(<<"a", "b">>, <<"a", ".", "t">>, "file"),
     Entry(<<"a", "b">>, <<"w", ".", "c">>, "file") >>

\* PageConfig's serverRoot, the title of the home breadcrumb
ServerRoot == <<"/", "s", "r", "v">>

----------------------------------------------------------------------------
(* The options and BrowseFileDialog.init                                   *)

\* An absent (undefined) string or array option is the empty sequence: the
\* code tests these options for truthiness only, and '' and [] with length 0
\* take the same branches as undefined.
RootPaths == {<<>>, <<"a">>, <<"a", "/">>}
StartPaths == {<<>>, <<"a">>, <<"a", "/", "d">>, <<"a", "b">>, <<"b">>}
ExtensionLists == {<<>>, << <<".", "c">> >>}
Filters == {NONE, "hideT"}

Options ==
  [filter : Filters,
   multiselect : BOOLEAN,
   includeDir : BOOLEAN,
   hasAcceptFileOnDblClick : BOOLEAN,   \* the option is an own property
   acceptFileOnDblClick : BOOLEAN,
   rootPath : RootPaths,
   startPath : StartPaths,
   extensions : ExtensionLists]

\* A caller's filter option: this one hides the files named *.t
UserFilter(f, model) ==
  CASE f = "hideT" -> ~EndsWith(model.name, <<".", "t">>)
    [] OTHER -> TRUE

\* The filter init builds when options.extensions is non-empty
ExtensionFilter(extensions, model) ==
  IF model.type = "directory" THEN TRUE
  ELSE LET parts == Split(model.name, ".")
           fileExtension == <<".">> \o ToLowerCase(parts[Len(parts)])
       IN fileExtension \in Range(extensions)

\* filterFunction of init, applied to one entry
FilterFunction(options, model) ==
  IF options.extensions # <<>> /\ Len(options.extensions) > 0
    THEN ExtensionFilter(options.extensions, model)
    ELSE IF options.filter # NONE THEN UserFilter(options.filter, model)
    ELSE TRUE

\* The object showBrowseFileDialog hands to init: it names manager, filter,
\* multiselect, includeDir, rootPath, startPath and acceptFileOnDblClick, so
\* that options.extensions is undefined inside init.
InitOptions(options) ==
  [filter |-> options.filter,
   multiselect |-> options.multiselect,
   includeDir |-> options.includeDir,
   rootPath |-> options.rootPath,
   startPath |-> options.startPath,
   acceptFileOnDblClick |->
     IF options.hasAcceptFileOnDblClick THEN options.acceptFileOnDblClick
     ELSE TRUE,
   extensions |-> <<>>]

\* The host's model.cd(p) for a directory that exists: the path is
\* normalised, a trailing '/' dropped.
CdPath(p) == IF EndsWith(p, <<"/">>) THEN SubSeq(p, 1, Len(p) - 1) ELSE p

\* The host's model.cd('..') and cd('../../'): n levels up, the root at most
CdUp(cur, n) ==
  LET parts == Split(cur, "/")
  IN IF cur = <<>> \/ Len(parts) <= n THEN <<>>
     ELSE JoinWith(SubSeq(parts, 1, Len(parts) - n), "/")

\* Where init leaves the model: the model starts in the root directory ''
InitPath(options) ==
  IF options.startPath # <<>>
    THEN IF options.rootPath = <<>> \/ StartsWith(options.startPath, options.rootPath)
           THEN CdPath(options.startPath)
           ELSE <<>>
    ELSE IF options.rootPath # <<>> THEN CdPath(options.rootPath)
    ELSE <<>>

\* The model's items in directory p, in listing order (FilterFileBrowserModel
\* built with init's filterFunction)
Items(p) ==
  SelectSeq(AllEntries,
            LAMBDA e : e.dir = p /\ FilterFunction(InitOptions(opts), e))

\* directoryListing.selectedItems(): the sorted items that are selected
SelectedItems == SelectSeq(Items(path), LAMBDA it : it.path \in selection)

\* getValue without its test of includeDir
GetValueKeepsDirectories == SelectedItems

\* BrowseFileDialog.getValue
GetValue ==
  SelectSeq(SelectedItems,
            LAMBDA item : InitOptions(opts).includeDir \/ item.type # "directory")

----------------------------------------------------------------------------
(* document.body.className                                                 *)

\* document.body.className += ` ${BROWSE_FILE_OPEN_CLASS}`
AddOpenClass(cls) == cls \o <<" ", BROWSE_FILE_OPEN_CLASS>>

\* className.replace(BROWSE_FILE_OPEN_CLASS, '').trim()
RemoveOpenClass(cls) == Trim(Replace(cls, <<BROWSE_FILE_OPEN_CLASS>>, <<>>))

\* document.querySelector(`.${BROWSE_FILE_OPEN_CLASS} .jp-mod-accept`): the
\* accept button of the attached dialog, found under a body carrying the marker
OkButtonExists == pc = "open" /\ HasToken(bodyClass, BROWSE_FILE_OPEN_CLASS)

----------------------------------------------------------------------------
(* BrowseFileDialogBreadcrumbs                                             *)

\* The log when the last step handled no event
NoLog ==
  [type |-> NONE, shiftOrMeta |-> FALSE, clicked |-> NONE,
   forwarded |-> 0, defaultPrevented |-> FALSE, propagationStopped |-> FALSE,
   okClicked |-> FALSE]

Crumbs == {"home", "ellipsis", "parent", "current"}

\* The host's BreadCrumbs.onUpdateRequest: which spans are in the document
\* for the model's path. The spans are kept, so a className outlives a render.
ShownCrumbs(p) ==
  LET parts == Split(p, "/")
  IN {"home"}
     \cup (IF Len(parts) > 2 THEN {"ellipsis"} ELSE {})
     \cup (IF p # <<>> /\ Len(parts) >= 2 THEN {"parent"} ELSE {})
     \cup (IF p # <<>> THEN {"current"} ELSE {})

\* ... and the titles the host gives them. A span out of the document is not
\* among those onUpdateRequest selects: its title is not kept here.
RenderedTitle(c, p, old) ==
  LET parts == Split(p, "/")
  IN CASE c = "ellipsis" /\ Len(parts) > 2 ->
            JoinWith(SubSeq(parts, 1, Len(parts) - 2), "/")
       [] c = "parent" /\ p # <<>> /\ Len(parts) >= 2 ->
            JoinWith(SubSeq(parts, 1, Len(parts) - 1), "/")
       [] c = "current" /\ p # <<>> -> p
       [] c = "home" -> old
       [] OTHER -> <<>>

\* The forEach body of onUpdateRequest, for one crumb
MarkCrumb(cls, title, rootPath) ==
  IF StartsWith(title, rootPath)
    THEN Trim(Replace(cls, <<DISABLED_CLASS>>, <<>>))
    ELSE IF ~HasToken(cls, DISABLED_CLASS)
      THEN cls \o <<" ", DISABLED_CLASS>>
      ELSE cls

\* The guard of onUpdateRequest's marking pass
MarkingApplies(localPath, rootPath) ==
  localPath # <<>> /\ rootPath # <<>> /\ StartsWith(localPath, rootPath)

\* BrowseFileDialogBreadcrumbs.onUpdateRequest, the host's render included.
\* The contents manager's localPath is the model's path (no drive name).
OnUpdateRequest ==
  /\ pc = "open"
  /\ updatePending
  /\ LET rootPath == InitOptions(opts).rootPath
         shown == ShownCrumbs(path)
         titles == [c \in Crumbs |-> RenderedTitle(c, path, crumbTitle[c])]
     IN /\ crumbShown' = shown
        /\ crumbTitle' = titles
        /\ crumbClass' =
             IF MarkingApplies(path, rootPath)
               THEN [c \in Crumbs |->
                       IF c \in shown
                         THEN MarkCrumb(crumbClass[c], titles[c], rootPath)
                         ELSE crumbClass[c]]
               ELSE crumbClass
  /\ updatePending' = FALSE
  /\ rendered' = TRUE
  /\ log' = NoLog
  /\ UNCHANGED <<opts, isMac, pc, bodyClass, path, selection, result,
                 returned, dpc>>

\* A click on a breadcrumb that is in the document and not disabled: the
\* host's BreadCrumbs click handler changes directory ('/', '../../', '../').
\* The message loop delivers a posted update request before the next user
\* input is taken, so the crumb clicked is one of the current render.
CrumbClick(c) ==
  /\ pc = "open"
  /\ ~updatePending
  /\ c \in crumbShown \ {"current"}
  /\ ~HasToken(crumbClass[c], DISABLED_CLASS)
  /\ path' = CASE c = "home" -> <<>>
               [] c = "ellipsis" -> CdUp(path, 2)
               [] c = "parent" -> CdUp(path, 1)
  /\ selection' = IF path' = path THEN selection ELSE {}
  /\ updatePending' = TRUE
  /\ log' = NoLog
  /\ UNCHANGED <<opts, isMac, pc, bodyClass, crumbShown, crumbTitle,
                 crumbClass, rendered, result, returned, dpc>>

----------------------------------------------------------------------------
(* Events on the directory listing                                         *)

FiveTypes == {"keydown", "keyup", "mousedown", "mouseup", "click"}
MouseTypes == {"mousedown", "mouseup", "click", "dblclick"}
KeyboardTypes == {"keydown", "keyup"}
EventTypes == FiveTypes \cup {"dblclick", "scroll"}

\* The most entries one directory lists
MaxItems == 3

\* The events whose handling reads the row under the pointer
RowTypes == {"mousedown", "dblclick"}

\* An event: its type, its modifiers, and the listing row under the pointer
\* (0: none, or not read). Keyboard events are arrow-down presses. A scroll
\* event is a plain Event: it has no modifier properties and no pointer.
Events ==
  {e \in [type : EventTypes, shiftKey : BOOLEAN, metaKey : BOOLEAN,
          ctrlKey : BOOLEAN, target : 0..MaxItems] :
     /\ e.type \notin RowTypes => e.target = 0
     /\ e.type = "scroll" => ~e.shiftKey /\ ~e.metaKey /\ ~e.ctrlKey}

\* directoryListing.modelForClick(event): the type of the entry under the
\* pointer, NONE when there is none
ClickedType(e) == IF e.target = 0 THEN NONE ELSE Items(path)[e.target].type

\* let modifierKey of handleEvent
ModifierKey(e) ==
  IF e.type \in MouseTypes THEN e.shiftKey \/ e.metaKey
  ELSE IF e.type \in KeyboardTypes THEN e.shiftKey \/ e.metaKey
  ELSE FALSE

\* handleEvent without its test of multiselect
ForwardsWithoutMultiselect(e) ==
  CASE e.type \in FiveTypes -> ~ModifierKey(e)
    [] e.type = "dblclick" -> ClickedType(e) = "directory"
    [] OTHER -> TRUE

\* Whether handleEvent calls dirListingHandleEvent with the event
Forwards(e) ==
  CASE e.type \in FiveTypes -> InitOptions(opts).multiselect \/ ~ModifierKey(e)
    [] e.type = "dblclick" -> ClickedType(e) = "directory"
    [] OTHER -> TRUE

\* Whether handleEvent calls preventDefault and stopPropagation
Stops(e) == e.type = "dblclick" /\ ClickedType(e) # "directory"

\* handleEvent without its test of acceptFileOnDblClick
ClicksOkAlways(e) == Stops(e) /\ OkButtonExists

\* Whether handleEvent clicks the accept button
ClicksOk(e) ==
  Stops(e) /\ InitOptions(opts).acceptFileOnDblClick /\ OkButtonExists

----------------------------------------------------------------------------
(* The host's DirListing.handleEvent, the handler the dialog wraps: what   *)
(* it does to the selection and the model for the events above.            *)

RowOf(p) == CHOOSE i \in 1..Len(Items(path)) : Items(path)[i].path = p
SelectedRows == {RowOf(p) : p \in selection}
Abs(n) == IF n < 0 THEN -n ELSE n
RowPaths(lo, hi) == {Items(path)[k].path : k \in lo..hi}

\* handleFileSelect, on mousedown: the platform's toggle key toggles the row,
\* shift extends the selection to the row, and a plain press selects the row
\* alone (for a row of a multiple selection, when the button is released)
FileSelect(e) ==
  LET p == Items(path)[e.target].path
      toggles == (isMac /\ e.metaKey) \/ (~isMac /\ e.ctrlKey)
      near == CHOOSE j \in SelectedRows :
                \A k \in SelectedRows : Abs(j - e.target) <= Abs(k - e.target)
  IN CASE e.target = 0 -> selection
       [] e.target # 0 /\ toggles ->
            IF p \in selection THEN selection \ {p} ELSE selection \cup {p}
       [] e.target # 0 /\ ~toggles /\ e.shiftKey ->
            IF selection = {} THEN {p}
            ELSE selection \cup
                   RowPaths(IF near < e.target THEN near ELSE e.target,
                            IF near < e.target THEN e.target ELSE near)
       [] OTHER -> {p}

\* selectNext(event.shiftKey), on an arrow-down keydown
SelectNext(e) ==
  LET n == Len(Items(path))
      last == CHOOSE j \in SelectedRows : \A k \in SelectedRows : k <= j
      row == IF selection = {} THEN 1
             ELSE IF Cardinality(selection) = 1 \/ e.shiftKey
               THEN (IF last = n THEN 1 ELSE last + 1)
               ELSE last
  IN IF n = 0 THEN selection
     ELSE IF e.shiftKey THEN selection \cup {Items(path)[row].path}
     ELSE {Items(path)[row].path}

\* A double click without modifiers opens the directory under the pointer
Opens(e) ==
  /\ e.type = "dblclick"
  /\ ClickedType(e) = "directory"
  /\ ~(e.shiftKey \/ e.metaKey \/ e.ctrlKey)

DirListingHandleEvent(e) ==
  IF Opens(e)
    THEN [path |-> Items(path)[e.target].path, selection |-> {},
          update |-> TRUE]
    ELSE [path |-> path,
          selection |-> CASE e.type = "mousedown" -> FileSelect(e)
                          [] e.type = "keydown" -> SelectNext(e)
                          [] OTHER -> selection,
          update |-> updatePending]

----------------------------------------------------------------------------
(* BrowseFileDialog.handleEvent                                            *)

HandleEvent(e) ==
  /\ pc = "open"
  /\ ~updatePending
  /\ e.target <= Len(Items(path))
  /\ LET after == IF Forwards(e) THEN DirListingHandleEvent(e)
                  ELSE [path |-> path, selection |-> selection,
                        update |-> updatePending]
     IN /\ path' = after.path
        /\ selection' = after.selection
        /\ updatePending' = after.update
        /\ log' = [type |-> e.type, shiftOrMeta |-> (e.shiftKey \/ e.metaKey),
                   clicked |-> IF e.type = "dblclick" THEN ClickedType(e)
                               ELSE NONE,
                   forwarded |-> IF Forwards(e) THEN 1 ELSE 0,
                   defaultPrevented |-> Stops(e),
                   propagationStopped |-> Stops(e),
                   okClicked |-> ClicksOk(e)]
        \* the accept button's click resolves the dialog with getValue()
        /\ pc' = IF ClicksOk(e) THEN "resolved" ELSE pc
        /\ result' = IF ClicksOk(e)
                       THEN [accept |-> TRUE, value |-> GetValue]
                       ELSE result
  /\ UNCHANGED <<opts, isMac, bodyClass, crumbShown, crumbTitle, crumbClass,
                 rendered, returned, dpc>>

----------------------------------------------------------------------------
(* showBrowseFileDialog                                                    *)

NoResult == [accept |-> FALSE, value |-> <<>>]

\* The call up to dialog.launch(): init builds the body and changes
\* directory, the dialog gets its class, the body gets the open marker, and
\* the dialog is attached, which posts the breadcrumbs' first update request.
ShowBrowseFileDialog ==
  /\ pc = "idle"
  /\ path' = InitPath(InitOptions(opts))
  /\ bodyClass' = AddOpenClass(bodyClass)
  /\ updatePending' = TRUE
  /\ pc' = "open"
  /\ log' = NoLog
  /\ UNCHANGED <<opts, isMac, selection, crumbShown, crumbTitle,
                 crumbClass, rendered, result, returned, dpc>>

\* The dialog's Select button: launch() resolves with the body's getValue()
ClickAccept ==
  /\ pc = "open"
  /\ ~updatePending
  /\ result' = [accept |-> TRUE, value |-> GetValue]
  /\ pc' = "resolved"
  /\ log' = NoLog
  /\ UNCHANGED <<opts, isMac, bodyClass, path, selection, crumbShown, crumbTitle, crumbClass, updatePending, rendered,
                 returned, dpc>>

\* The dialog's Cancel button: launch() resolves with no value (null, here
\* the empty list; the callback reads value only of an accepted result)
ClickCancel ==
  /\ pc = "open"
  /\ ~updatePending
  /\ result' = [accept |-> FALSE, value |-> <<>>]
  /\ pc' = "resolved"
  /\ log' = NoLog
  /\ UNCHANGED <<opts, isMac, bodyClass, path, selection, crumbShown, crumbTitle, crumbClass, updatePending, rendered,
                 returned, dpc>>

\* const relativeToPath of the callback
RelativeToPath(rootPath) ==
  IF EndsWith(rootPath, <<"/">>) THEN rootPath ELSE rootPath \o <<"/">>

\* What the callback makes of launch()'s result
RewriteResult(options, res) ==
  IF options.rootPath # <<>> /\ res.accept /\ Len(res.value) > 0
    THEN [res EXCEPT !.value =
            [i \in 1..Len(res.value) |->
               [res.value[i] EXCEPT
                  !.path = Replace(@, RelativeToPath(options.rootPath), <<>>)]]]
    ELSE res

\* The callback given to launch().then
LaunchThen ==
  /\ pc = "resolved"
  /\ bodyClass' = RemoveOpenClass(bodyClass)
  /\ returned' = RewriteResult(opts, result)
  /\ pc' = "done"
  /\ log' = NoLog
  /\ UNCHANGED <<opts, isMac, path, selection, crumbShown,
                 crumbTitle, crumbClass, updatePending, rendered, result, dpc>>

----------------------------------------------------------------------------
(* One dialog, from the call to the value returned                         *)

HostBodyClass == <<"jp-body">>

InitDialog ==
  /\ pc = "idle"
  /\ bodyClass = HostBodyClass
  /\ path = <<>>
  /\ selection = {}
  /\ crumbShown = {}
  /\ crumbTitle = [c \in Crumbs |-> IF c = "home" THEN ServerRoot ELSE <<>>]
  /\ crumbClass = [c \in Crumbs |-> <<"jp-BreadCrumbs-item">>]
  /\ updatePending = FALSE
  /\ rendered = FALSE
  /\ log = NoLog
  /\ result = NoResult
  /\ returned = NoResult
  /\ dpc = [phase |-> [d \in 1..MaxDialogs |-> "idle"], queue |-> <<>>]

\* The options a call leaves out
DefaultOptions ==
  [filter |-> NONE, multiselect |-> FALSE, includeDir |-> FALSE,
   hasAcceptFileOnDblClick |-> FALSE, acceptFileOnDblClick |-> FALSE,
   rootPath |-> <<>>, startPath |-> <<>>, extensions |-> <<>>]

\* Calls that differ in the options of the event routing, on either platform
Init ==
  /\ opts \in {o \in Options :
                 /\ o.filter = NONE /\ o.extensions = <<>> /\ ~o.includeDir
                 /\ o.rootPath = <<>> /\ o.startPath = <<>>
                 /\ (~o.hasAcceptFileOnDblClick => ~o.acceptFileOnDblClick)}
  /\ isMac \in BOOLEAN
  /\ InitDialog

\* Calls that differ in what is listed and what getValue keeps
InitValue ==
  /\ opts \in {o \in Options :
                 /\ o.multiselect /\ ~o.hasAcceptFileOnDblClick
                 /\ ~o.acceptFileOnDblClick
                 /\ o.rootPath = <<>> /\ o.startPath = <<>>}
  /\ isMac = FALSE
  /\ InitDialog

\* Calls that differ in rootPath and startPath
InitRoot ==
  /\ opts \in {o \in Options :
                 /\ o.filter = NONE /\ o.extensions = <<>>
                 /\ o.multiselect /\ o.includeDir
                 /\ ~o.hasAcceptFileOnDblClick /\ ~o.acceptFileOnDblClick}
  /\ isMac = FALSE
  /\ InitDialog

Next ==
  \/ ShowBrowseFileDialog
  \/ OnUpdateRequest
  \/ \E c \in Crumbs : CrumbClick(c)
  \/ \E e \in Events : HandleEvent(e)
  \/ ClickAccept
  \/ ClickCancel
  \/ LaunchThen

Spec == Init /\ [][Next]_vars
SpecValue == InitValue /\ [][Next]_vars
SpecRoot == InitRoot /\ [][Next]_vars

----------------------------------------------------------------------------
(* Several calls of showBrowseFileDialog, in sequence or overlapping: what *)
(* they do to document.body.className. The host's Dialog.launch() queues   *)
(* the dialogs: one is attached when those launched before it are resolved. *)

Dialogs == 1..MaxDialogs

\* showBrowseFileDialog up to dialog.launch(): the marker is added and the
\* dialog joins the host's launch queue
CallShow(d) ==
  /\ dpc.phase[d] = "idle"
  /\ bodyClass' = AddOpenClass(bodyClass)
  /\ dpc' = [phase |-> [dpc.phase EXCEPT ![d] = "queued"],
             queue |-> Append(dpc.queue, d)]
  /\ UNCHANGED dialogVars

\* The host attaches the dialog at the head of the queue
CallAttach(d) ==
  /\ dpc.phase[d] = "queued"
  /\ Head(dpc.queue) = d
  /\ dpc' = [dpc EXCEPT !.phase[d] = "attached"]
  /\ UNCHANGED <<bodyClass, dialogVars>>

\* x was launched after d, and waits for d in the host's queue
WaitsFor(x, d) ==
  \E i, j \in 1..Len(dpc.queue) :
    i < j /\ dpc.queue[i] = d /\ dpc.queue[j] = x /\ dpc.phase[x] = "queued"

\* The dialog is disposed before a button resolves it (the host's
\* Dialog.flush, say): it leaves the queue and the promise of launch() is
\* rejected, for the dialogs that wait for it too. The callback given to
\* then, a fulfilment handler only, never runs for them.
CallLaunchFails(d) ==
  /\ dpc.phase[d] \in {"queued", "attached"}
  /\ dpc' = [phase |-> [x \in Dialogs |->
                          IF x = d \/ WaitsFor(x, d) THEN "failed"
                          ELSE dpc.phase[x]],
             queue |-> SelectSeq(dpc.queue, LAMBDA x : x # d)]
  /\ UNCHANGED <<bodyClass, dialogVars>>

\* A button of the attached dialog: the dialog leaves the queue and
\* launch() resolves
CallResolve(d) ==
  /\ dpc.phase[d] = "attached"
  /\ dpc' = [phase |-> [dpc.phase EXCEPT ![d] = "resolved"],
             queue |-> SelectSeq(dpc.queue, LAMBDA x : x # d)]
  /\ UNCHANGED <<bodyClass, dialogVars>>

\* The callback given to launch().then: the marker is removed
CallThen(d) ==
  /\ dpc.phase[d] = "resolved"
  /\ bodyClass' = RemoveOpenClass(bodyClass)
  /\ dpc' = [dpc EXCEPT !.phase[d] = "done"]
  /\ UNCHANGED dialogVars

InitBody ==
  /\ opts = DefaultOptions
  /\ isMac = FALSE
  /\ InitDialog

NextBody ==
  \E d \in Dialogs :
    \/ CallShow(d)
    \/ CallAttach(d)
    \/ CallLaunchFails(d)
    \/ CallResolve(d)
    \/ CallThen(d)

SpecBody == InitBody /\ [][NextBody]_vars

----------------------------------------------------------------------------
(* Properties                                                              *)

RootPath == opts.rootPath
Marker == HasToken(bodyClass, BROWSE_FILE_OPEN_CLASS)
Launched == pc \in {"open", "resolved", "done"}

\* p is the directory rootPath names, or lies below it
UnderRoot(p, root) ==
  LET dir == IF root[Len(root)] = "/" THEN SubSeq(root, 1, Len(root) - 1)
             ELSE root
  IN p = dir \/ (Len(p) > Len(dir) /\ SubSeq(p, 1, Len(dir) + 1) = dir \o <<"/">>)

\* C1: with a rootPath configured, after every update request of the
\* breadcrumbs every breadcrumb in the document whose title does not start
\* with rootPath carries the class amphi-BreadCrumbs-disabled, whatever
\* directory the model is in.
C1_CrumbsAboveRootDisabled ==
  (RootPath # <<>> /\ pc = "open" /\ rendered /\ ~updatePending) =>
    \A c \in crumbShown :
      ~StartsWith(crumbTitle[c], RootPath) =>
        DISABLED_CLASS \in Range(crumbClass[c])

\* C7: with a rootPath configured, from init on the model's directory is
\* rootPath or a directory below it.
C7_StaysUnderRoot ==
  (RootPath # <<>> /\ Launched) => UnderRoot(path, RootPath)

\* C3: without multiselect at most one entry is selected after any sequence
\* of events, so that getValue returns at most one entry.
C3_SingleSelection ==
  (~opts.multiselect /\ Launched) =>
    Cardinality(selection) <= 1 /\ Len(GetValue) <= 1

\* The lower-cased text after the last '.' of a name (all of it when the name
\* has no '.'), prefixed with '.'
LastDot(name) ==
  LET dots == {i \in 1..Len(name) : name[i] = "."}
  IN IF dots = {} THEN 0 ELSE CHOOSE i \in dots : \A j \in dots : j <= i

DotExtension(name) ==
  <<".">> \o [i \in 1..(Len(name) - LastDot(name)) |->
               LowerChar(name[LastDot(name) + i])]

Listed(e) == \E i \in 1..Len(Items(path)) : Items(path)[i] = e

\* C5: with a non-empty extensions option the dialog lists every directory
\* and exactly the files whose extension is one of those given; with no
\* extensions the filter option decides, and with neither all is listed.
C5_ExtensionsDecideListing ==
  Launched =>
    \A i \in 1..Len(AllEntries) :
      LET e == AllEntries[i]
      IN e.dir = path =>
           (Listed(e) <=>
              IF opts.extensions # <<>>
                THEN e.type = "directory"
                       \/ \E k \in 1..Len(opts.extensions) :
                            opts.extensions[k] = DotExtension(e.name)
              ELSE IF opts.filter = "hideT"
                THEN ~(Len(e.name) >= 2 /\ e.name[Len(e.name)] = "t"
                         /\ e.name[Len(e.name) - 1] = ".")
              ELSE TRUE)

\* C6: an accepted, non-empty selection under a rootPath is returned with
\* paths relative to rootPath: rootPath, one '/', and the returned path make
\* the entry's path; any other result is returned as it is.
C6_ReturnedPathsRelative ==
  pc = "done" =>
    IF RootPath # <<>> /\ result.accept /\ result.value # <<>>
      THEN /\ Len(returned.value) = Len(result.value)
           /\ \A i \in 1..Len(result.value) :
                LET root == IF RootPath[Len(RootPath)] = "/" THEN RootPath
                            ELSE RootPath \o <<"/">>
                IN root \o returned.value[i].path = result.value[i].path
      ELSE returned = result

\* C9: the body carries the open marker while a dialog is launched and not
\* yet finished, and no longer carries it once every call has finished
\* (accepted, cancelled, or its launch failed).
C9_MarkerWhileOpen ==
  /\ (\E d \in Dialogs : dpc.phase[d] \in {"queued", "attached"}) => Marker
  /\ (\A d \in Dialogs : dpc.phase[d] \in {"idle", "done", "failed"}) => ~Marker

\* C2: a dblclick on a directory is forwarded to the listing's handler; any
\* other dblclick is not forwarded, has its default action and propagation
\* stopped, and clicks the accept button exactly when acceptFileOnDblClick
\* holds and the button is found under the open marker; the click accepts
\* the dialog.
C2_DblClickAccepts ==
  log.type = "dblclick" =>
    IF log.clicked = "directory"
      THEN log.forwarded = 1 /\ ~log.okClicked
      ELSE /\ log.forwarded = 0
           /\ log.defaultPrevented
           /\ log.propagationStopped
           /\ log.okClicked <=> (InitOptions(opts).acceptFileOnDblClick /\ Marker)
           /\ log.okClicked => (pc = "resolved" /\ result.accept)

C2_Witness ==
  /\ log.type = "dblclick"
  /\ log.clicked = "file"
  /\ log.okClicked
  /\ pc = "resolved"

\* What C8 says of the last event handled
C8_Routed ==
  /\ log.forwarded \in {0, 1}
  /\ log.type \in FiveTypes =>
       (log.forwarded = 1 <=> (opts.multiselect \/ ~log.shiftOrMeta))
  /\ log.type \notin (FiveTypes \cup {"dblclick", NONE}) => log.forwarded = 1

\* ... and of a step that drops an event
C8_DroppedChangesNothing ==
  (log'.type \in FiveTypes /\ log'.forwarded = 0) =>
    UNCHANGED <<opts, isMac, pc, bodyClass, path, selection, crumbShown,
                crumbTitle, crumbClass, updatePending, rendered, result,
                returned, dpc>>

\* C8: a keydown, keyup, mousedown, mouseup or click event is forwarded to the
\* listing's handler exactly when multiselect holds or the event carries
\* neither shift nor meta, and a dropped event changes nothing; an event of
\* another type than these and dblclick is forwarded, once.
C8_ModifierRouting == [](C8_Routed) /\ [][C8_DroppedChangesNothing]_vars

C8_Witness ==
  /\ ~opts.multiselect
  /\ log.type = "mousedown"
  /\ log.shiftOrMeta
  /\ log.forwarded = 0

\* v is the selected entries of the listing, in listing order, directories
\* left out unless includeDir
IsSelectionValue(v) ==
  /\ \A i \in 1..Len(v) :
       /\ Listed(v[i])
       /\ v[i].path \in selection
       /\ (opts.includeDir \/ v[i].type # "directory")
  /\ \A k \in 1..Len(Items(path)) :
       (/\ Items(path)[k].path \in selection
        /\ (opts.includeDir \/ Items(path)[k].type # "directory"))
         => \E i \in 1..Len(v) : v[i] = Items(path)[k]
  /\ \A i, j \in 1..Len(v) : i < j => RowOf(v[i].path) < RowOf(v[j].path)

\* C4: getValue returns exactly the selected entries, in listing order,
\* directories left out unless includeDir, and leaves the selection as it is.
C4_GetValueIsSelection ==
  /\ []((pc = "resolved" /\ result.accept) => IsSelectionValue(result.value))
  /\ [][(pc = "open" /\ pc' = "resolved") =>
          (selection' = selection /\ path' = path)]_vars

C4_Witness ==
  /\ pc = "resolved"
  /\ result.accept
  /\ ~opts.includeDir
  /\ Len(result.value) = 2
  /\ Cardinality(selection) = 3

====
